---- MODULE Spec2Model ----
(***************************************************************************)
(* Model of the quasirandom crate (grantslatton/quasirandom).              *)
(*                                                                         *)
(* src/src/lib.rs is the generic generator Qrng<T>: a phase state          *)
(* State<N>([f64; N]) advanced by an additive recurrence over the          *)
(* CONSTANTS table, and the FromUniform mapping from a coordinate to a     *)
(* value of the requested type.                                            *)
(*                                                                         *)
(* Numbers.  An f64 is modelled as a fixed-point number: the integer m     *)
(* stands for the real m / ONE, so 1.0 is ONE and 0.5 is HALF.  NaN is a   *)
(* distinguished value that every arithmetic operator propagates and every *)
(* comparison rejects, as IEEE-754 does.  Each entry c of the CONSTANTS    *)
(* table is stored as floor(c * ONE).                                       *)
(***************************************************************************)
EXTENDS Integers, Naturals, Sequences, FiniteSets, TLC

\* Bound of the model: number of gen() calls made on one handle.
MaxCalls == 3

\* Bound of the model: largest tuple arity used where two handles run side
\* by side (specification SpecPair).
MaxPairArity == 2

\* 1.0 and 0.5 in the fixed-point representation.
ONE == 1024
HALF == ONE \div 2

\* std::f64::NAN : a value outside the range of every number the model
\* computes.
NaN == -2147483647

IsNaN(x) == x = NaN

\* f64 arithmetic and comparison with NaN propagation.
FAdd(a, b) == IF IsNaN(a) \/ IsNaN(b) THEN NaN ELSE a + b
FSub(a, b) == IF IsNaN(a) \/ IsNaN(b) THEN NaN ELSE a - b
FLt(a, b) == ~IsNaN(a) /\ ~IsNaN(b) /\ a < b
FGe(a, b) == ~IsNaN(a) /\ ~IsNaN(b) /\ a >= b

\* seed * i as f64 : a coordinate times an integer-valued float.
FMulInt(a, i) == IF IsNaN(a) THEN NaN ELSE a * i

FTimes2_triple(a) == FMulInt(a, 3)

\* uniform_value * 2.0
FTimes2(a) == FMulInt(a, 2)

Fract_identity(x) == x

\* f64::fract : x - x.trunc(); keeps the sign of x, NaN for NaN.
Fract(x) ==
    IF IsNaN(x) THEN NaN
    ELSE IF x >= 0 THEN x % ONE
    ELSE 0 - ((0 - x) % ONE)

\* static CONSTANTS: [[f64; 32]; 32]; row d-1 holds the d constants of
\* dimensionality d, padded with NaN.  Rows and columns are 0-based in the
\* source and 1-based here: Constants[r+1][c+1] is CONSTANTS[r][c].
Constants == <<
    <<632, NaN, NaN, NaN, NaN, NaN, NaN, NaN, NaN, NaN, NaN, NaN, NaN, NaN, NaN, NaN, NaN, NaN, NaN, NaN, NaN, NaN, NaN, NaN, NaN, NaN, NaN, NaN, NaN, NaN, NaN, NaN>>,
    <<772, 583, NaN, NaN, NaN, NaN, NaN, NaN, NaN, NaN, NaN, NaN, NaN, NaN, NaN, NaN, NaN, NaN, NaN, NaN, NaN, NaN, NaN, NaN, NaN, NaN, NaN, NaN, NaN, NaN, NaN, NaN>>,
    <<838, 687, 562, NaN, NaN, NaN, NaN, NaN, NaN, NaN, NaN, NaN, NaN, NaN, NaN, NaN, NaN, NaN, NaN, NaN, NaN, NaN, NaN, NaN, NaN, NaN, NaN, NaN, NaN, NaN, NaN, NaN>>,
    <<877, 751, 643, 551, NaN, NaN, NaN, NaN, NaN, NaN, NaN, NaN, NaN, NaN, NaN, NaN, NaN, NaN, NaN, NaN, NaN, NaN, NaN, NaN, NaN, NaN, NaN, NaN, NaN, NaN, NaN, NaN>>,
    <<902, 795, 700, 617, 544, NaN, NaN, NaN, NaN, NaN, NaN, NaN, NaN, NaN, NaN, NaN, NaN, NaN, NaN, NaN, NaN, NaN, NaN, NaN, NaN, NaN, NaN, NaN, NaN, NaN, NaN, NaN>>,
    <<920, 826, 743, 667, 600, 539, NaN, NaN, NaN, NaN, NaN, NaN, NaN, NaN, NaN, NaN, NaN, NaN, NaN, NaN, NaN, NaN, NaN, NaN, NaN, NaN, NaN, NaN, NaN, NaN, NaN, NaN>>,
    <<933, 850, 775, 707, 644, 587, 535, NaN, NaN, NaN, NaN, NaN, NaN, NaN, NaN, NaN, NaN, NaN, NaN, NaN, NaN, NaN, NaN, NaN, NaN, NaN, NaN, NaN, NaN, NaN, NaN, NaN>>,
    <<943, 869, 801, 738, 680, 627, 578, 532, NaN, NaN, NaN, NaN, NaN, NaN, NaN, NaN, NaN, NaN, NaN, NaN, NaN, NaN, NaN, NaN, NaN, NaN, NaN, NaN, NaN, NaN, NaN, NaN>>,
    <<951, 884, 822, 764, 710, 660, 614, 570, 530, NaN, NaN, NaN, NaN, NaN, NaN, NaN, NaN, NaN, NaN, NaN, NaN, NaN, NaN, NaN, NaN, NaN, NaN, NaN, NaN, NaN, NaN, NaN>>,
    <<958, 897, 839, 786, 735, 688, 644, 603, 565, 528, NaN, NaN, NaN, NaN, NaN, NaN, NaN, NaN, NaN, NaN, NaN, NaN, NaN, NaN, NaN, NaN, NaN, NaN, NaN, NaN, NaN, NaN>>,
    <<964, 907, 854, 804, 757, 713, 671, 632, 595, 560, 527, NaN, NaN, NaN, NaN, NaN, NaN, NaN, NaN, NaN, NaN, NaN, NaN, NaN, NaN, NaN, NaN, NaN, NaN, NaN, NaN, NaN>>,
    <<968, 916, 866, 820, 775, 734, 694, 656, 621, 587, 556, 526, NaN, NaN, NaN, NaN, NaN, NaN, NaN, NaN, NaN, NaN, NaN, NaN, NaN, NaN, NaN, NaN, NaN, NaN, NaN, NaN>>,
    <<972, 924, 877, 833, 792, 752, 714, 678, 644, 612, 581, 552, 525, NaN, NaN, NaN, NaN, NaN, NaN, NaN, NaN, NaN, NaN, NaN, NaN, NaN, NaN, NaN, NaN, NaN, NaN, NaN>>,
    <<976, 930, 887, 845, 806, 768, 732, 698, 665, 634, 605, 576, 549, 524, NaN, NaN, NaN, NaN, NaN, NaN, NaN, NaN, NaN, NaN, NaN, NaN, NaN, NaN, NaN, NaN, NaN, NaN>>,
    <<979, 936, 895, 856, 818, 782, 748, 715, 684, 654, 626, 598, 572, 547, 523, NaN, NaN, NaN, NaN, NaN, NaN, NaN, NaN, NaN, NaN, NaN, NaN, NaN, NaN, NaN, NaN, NaN>>,
    <<981, 941, 902, 865, 829, 795, 763, 731, 701, 672, 644, 618, 592, 568, 545, 522, NaN, NaN, NaN, NaN, NaN, NaN, NaN, NaN, NaN, NaN, NaN, NaN, NaN, NaN, NaN, NaN>>,
    <<984, 945, 909, 873, 839, 807, 775, 745, 716, 689, 662, 636, 611, 588, 565, 543, 522, NaN, NaN, NaN, NaN, NaN, NaN, NaN, NaN, NaN, NaN, NaN, NaN, NaN, NaN, NaN>>,
    <<986, 950, 915, 881, 849, 817, 787, 758, 730, 703, 678, 653, 629, 605, 583, 562, 541, 521, NaN, NaN, NaN, NaN, NaN, NaN, NaN, NaN, NaN, NaN, NaN, NaN, NaN, NaN>>,
    <<988, 953, 920, 888, 857, 827, 798, 770, 743, 717, 692, 668, 645, 622, 600, 579, 559, 539, 521, NaN, NaN, NaN, NaN, NaN, NaN, NaN, NaN, NaN, NaN, NaN, NaN, NaN>>,
    <<989, 957, 925, 894, 864, 835, 808, 781, 755, 730, 705, 682, 659, 637, 616, 596, 576, 557, 538, 520, NaN, NaN, NaN, NaN, NaN, NaN, NaN, NaN, NaN, NaN, NaN, NaN>>,
    <<991, 960, 929, 900, 871, 843, 817, 791, 766, 741, 718, 695, 673, 651, 631, 611, 591, 573, 554, 537, 520, NaN, NaN, NaN, NaN, NaN, NaN, NaN, NaN, NaN, NaN, NaN>>,
    <<992, 962, 933, 905, 877, 851, 825, 800, 776, 752, 729, 707, 686, 665, 645, 625, 606, 588, 570, 552, 536, 519, NaN, NaN, NaN, NaN, NaN, NaN, NaN, NaN, NaN, NaN>>,
    <<994, 965, 937, 910, 883, 857, 832, 808, 785, 762, 740, 718, 697, 677, 657, 638, 620, 602, 584, 567, 551, 535, 519, NaN, NaN, NaN, NaN, NaN, NaN, NaN, NaN, NaN>>,
    <<995, 967, 940, 914, 888, 864, 839, 816, 793, 771, 750, 729, 708, 689, 669, 651, 632, 615, 598, 581, 565, 549, 534, 519, NaN, NaN, NaN, NaN, NaN, NaN, NaN, NaN>>,
    <<996, 969, 943, 918, 893, 869, 846, 823, 801, 780, 759, 738, 719, 699, 681, 662, 645, 627, 610, 594, 578, 563, 547, 533, 518, NaN, NaN, NaN, NaN, NaN, NaN, NaN>>,
    <<997, 971, 946, 922, 898, 875, 852, 830, 809, 788, 767, 748, 728, 709, 691, 673, 656, 639, 622, 606, 591, 575, 561, 546, 532, 518, NaN, NaN, NaN, NaN, NaN, NaN>>,
    <<998, 973, 949, 925, 902, 880, 858, 836, 816, 795, 776, 756, 737, 719, 701, 684, 667, 650, 634, 618, 603, 588, 573, 559, 545, 531, 518, NaN, NaN, NaN, NaN, NaN>>,
    <<999, 975, 951, 929, 906, 884, 863, 842, 822, 802, 783, 764, 746, 728, 710, 693, 677, 660, 645, 629, 614, 599, 585, 571, 557, 544, 530, 518, NaN, NaN, NaN, NaN>>,
    <<1000, 976, 954, 932, 910, 889, 868, 848, 828, 809, 790, 772, 754, 736, 719, 703, 686, 670, 655, 640, 625, 610, 596, 582, 569, 555, 542, 530, 518, NaN, NaN, NaN>>,
    <<1000, 978, 956, 935, 913, 893, 873, 853, 834, 815, 797, 779, 762, 744, 728, 711, 695, 680, 664, 649, 635, 621, 607, 593, 580, 567, 554, 541, 529, 517, NaN, NaN>>,
    <<1001, 979, 958, 937, 917, 897, 877, 858, 840, 821, 803, 786, 769, 752, 736, 720, 704, 689, 674, 659, 645, 631, 617, 603, 590, 577, 565, 552, 540, 529, 517, NaN>>,
    <<1002, 981, 960, 940, 920, 900, 881, 863, 845, 827, 809, 792, 776, 759, 743, 727, 712, 697, 682, 668, 654, 640, 626, 613, 600, 588, 575, 563, 551, 540, 528, 517>>
>>

\* Number of rows / columns of the table ([[f64; 32]; 32]).
TableDim == 32

\* CONSTANTS[r][c] with Rust's bounds check: an index outside 0..31 panics.
TableIndexOk(r, c) == r \in 0..(TableDim - 1) /\ c \in 0..(TableDim - 1)
ConstAt(r, c) == Constants[r + 1][c + 1]

ConstRow_offByOne(n) == n

\* The row read by State<N>::gen : CONSTANTS[N-1].
ConstRow(n) == n - 1

(***************************************************************************)
(* Target types and the FromUniform mapping.                               *)
(***************************************************************************)
TF64 == [k |-> "f64"]
TBool == [k |-> "bool"]
TUnit == [k |-> "unit"]
TOption(t) == [k |-> "Option", t |-> t]
TResult(t, e) == [k |-> "Result", t |-> t, e |-> e]

\* impl FromUniform for f64
F64_from_uniform(u) == u

\* impl FromUniform for bool
Bool_from_uniform(u) == FLt(u, HALF)

FirstHalf_inclusive(u) == ~IsNaN(u) /\ u <= HALF

\* The branch taken by Option and Result: uniform_value < 0.5
FirstHalf(u) == FLt(u, HALF)

InnerHigh_noShift(u) == FTimes2(u)

\* The coordinate handed to the inner mapping on each branch.
InnerLow(u) == FTimes2(u)
InnerHigh(u) == FSub(FTimes2(u), ONE)

\* unsigned!(u8 u16 u32 u64 u128 usize) and signed!(i8 i16 i32 i64 i128 isize):
\* an integer type of width w.
TUnsigned(w) == [k |-> "uint", w |-> w]
TSigned(w) == [k |-> "int", w |-> w]

\* ::std::$ut::MAX, ::std::$st::MIN, ::std::$st::MAX
UMax(w) == 2^w - 1
IMin(w) == 0 - 2^(w - 1)
IMax(w) == 2^(w - 1) - 1

\* n as f64 for an integer n: the float of value n, exact while |n| < 2^53.
IntAsF64(n) == n * ONE

\* f64 product a * b; exact when a is integer-valued.
FMul(a, b) ==
    IF IsNaN(a) \/ IsNaN(b) THEN NaN
    ELSE (a \div ONE) * b + ((a % ONE) * b) \div ONE

\* The integer part of a float, rounded toward zero.
TruncZero(x) == IF x >= 0 THEN x \div ONE ELSE 0 - ((0 - x) \div ONE)

CastToInt_nearest(x, lo, hi) ==
    IF IsNaN(x) THEN 0
    ELSE LET t == (x + HALF) \div ONE
         IN IF t < lo THEN lo ELSE IF t > hi THEN hi ELSE t

\* x as $ut / x as $st : truncates toward zero, saturates at the bounds of
\* the type, and sends NaN to 0.
CastToInt(x, lo, hi) ==
    IF IsNaN(x) THEN 0
    ELSE LET t == TruncZero(x)
         IN IF t < lo THEN lo ELSE IF t > hi THEN hi ELSE t

\* unsigned! : (::std::$ut::MAX as f64 * uniform_value) as $ut
Unsigned_from_uniform(w, u) ==
    CastToInt(FMul(IntAsF64(UMax(w)), u), 0, UMax(w))

SignedSpan_noPlusOne(w) == FSub(IntAsF64(IMax(w)), IntAsF64(IMin(w)))

\* signed! : ::std::$st::MAX as f64 - min + 1.0
SignedSpan(w) == FAdd(FSub(IntAsF64(IMax(w)), IntAsF64(IMin(w))), ONE)

\* signed! : the float `result` before the cast
Signed_result(w, u) == FAdd(FMul(SignedSpan(w), u), IntAsF64(IMin(w)))

Signed_from_uniform_reinterpret(w, u) ==
    LET r == CastToInt(FMul(SignedSpan(w), u), 0, UMax(w))
    IN IF r > IMax(w) THEN r - (UMax(w) + 1) ELSE r

\* signed! : result as $st
Signed_from_uniform(w, u) == CastToInt(Signed_result(w, u), IMin(w), IMax(w))

RECURSIVE FromUniform(_, _)
FromUniform(ty, u) ==
    CASE ty.k = "f64" -> [k |-> "f64", v |-> F64_from_uniform(u)]
      [] ty.k = "bool" -> [k |-> "bool", v |-> Bool_from_uniform(u)]
      [] ty.k = "unit" -> [k |-> "unit"]
      [] ty.k = "uint" -> [k |-> "uint", v |-> Unsigned_from_uniform(ty.w, u)]
      [] ty.k = "int" -> [k |-> "int", v |-> Signed_from_uniform(ty.w, u)]
      [] ty.k = "Option" ->
            IF FirstHalf(u)
            THEN [k |-> "Some", v |-> FromUniform(ty.t, InnerLow(u))]
            ELSE [k |-> "None"]
      [] ty.k = "Result" ->
            IF FirstHalf(u)
            THEN [k |-> "Ok", v |-> FromUniform(ty.t, InnerLow(u))]
            ELSE [k |-> "Err", v |-> FromUniform(ty.e, InnerHigh(u))]

(***************************************************************************)
(* define_from_uniform! : the macro that implements Quasirandom and Qrng   *)
(* for tuples.  Expanding it on a token list yields one impl per non-empty *)
(* suffix of the list; the @inner rule counts the parameters in n while    *)
(* it collects them.                                                       *)
(***************************************************************************)
RECURSIVE DefineInner(_, _, _)
DefineInner(n, acc, rem) ==
    IF rem = <<>>
    THEN [n |-> n, params |-> acc]
    ELSE DefineInner(n + 1, <<Head(rem)>> \o acc, Tail(rem))

RECURSIVE DefineFromUniform(_)
DefineFromUniform(toks) ==
    IF toks = <<>>
    THEN {}
    ELSE DefineFromUniform(Tail(toks))
            \cup {DefineInner(1, <<Head(toks)>>, Tail(toks))}

\* define_from_uniform!(T31 T30 ... T0);
MacroTokens == [j \in 1..32 |-> 32 - j]
TupleImpls == DefineFromUniform(MacroTokens)

\* A k-tuple can be bound to a handle iff the macro produced an impl for it.
HasTupleImpl(k) == \E im \in TupleImpls : Len(im.params) = k

\* type State = State<{$n}> of the impl for k-tuples.
TupleN(k) == (CHOOSE im \in TupleImpls : Len(im.params) = k).n

\* impl<T: FromUniform> Quasirandom for T { type State = State<1>; }
ScalarN == 1

(***************************************************************************)
(* State of the program: the handles that exist, and the last direct call  *)
(* of a FromUniform mapping.                                               *)
(***************************************************************************)
VARIABLES handles, call, legacy

vars == <<handles, call, legacy>>

Handles == {1, 2}

NoValue == [k |-> "none"]

Uninit ==
    [st |-> "uninit", tuple |-> FALSE, shape |-> <<>>, n |-> 0, seed |-> 0,
     state |-> <<>>, calls |-> 0, coords |-> <<>>, out |-> NoValue,
     outs |-> <<>>]

NoCall == [ty |-> NoValue, u |-> 0, out |-> NoValue]

\* The legacy generator before Qrng::new.
NoLegacy ==
    [st |-> "uninit", seed |-> 0, c |-> 0, calls |-> 0, arity |-> 0,
     mixed |-> FALSE, out |-> <<>>, shape |-> <<>>,
             val |-> NoValue]

Init ==
    /\ handles = [h \in Handles |-> Uninit]
    /\ call = NoCall
    /\ legacy = NoLegacy

SelfState_static(h) ==
    IF handles[1].st = "live" /\ handles[1].n = handles[h].n
    THEN handles[1].state
    ELSE handles[h].state

\* self.state.0 of handle h
SelfState(h) == handles[h].state

SeedPhase_fromOne(seed, i) == Fract(FMulInt(seed, i + 1))

SeedPhase_noIndex(seed, i) == Fract(seed)

\* The seeding loop of Qrng::<(T0, ..)>::new : seeds[i] = (seed * i as f64).fract()
SeedPhase(seed, i) == Fract(FMulInt(seed, i))

SeedAsserts_lowerOnly(seed) == FGe(seed, 0)

\* assert!(seed >= 0.0); assert!(seed < 1.0);
SeedAsserts(seed) == FGe(seed, 0) /\ FLt(seed, ONE)

\* Qrng::<(T0, .., Tn-1)>::new(seed)
Qrng_tuple_new(n, seed) ==
    IF ~SeedAsserts(seed)
    THEN [panic |-> TRUE, state |-> <<>>]
    ELSE [panic |-> FALSE, state |-> [i \in 1..n |-> SeedPhase(seed, i - 1)]]

Qrng_new_direct(seed) ==
    IF ~SeedAsserts(seed)
    THEN [panic |-> TRUE, state |-> <<>>]
    ELSE [panic |-> FALSE, state |-> <<Fract(seed)>>]

\* Qrng::<T>::new(seed) : delegates to the 1-tuple handle and takes its state.
Qrng_new(seed) == Qrng_tuple_new(TupleN(1), seed)

State_gen_nextColumn(s, n) ==
    IF \E i \in 1..n : ~TableIndexOk(ConstRow(n), i)
    THEN [panic |-> TRUE, state |-> s]
    ELSE [panic |-> FALSE,
          state |-> [i \in 1..n |-> Fract(FAdd(s[i], ConstAt(ConstRow(n), i)))]]

State_gen_neighbour(s, n) ==
    IF \E i \in 0..(n - 1) : ~TableIndexOk(ConstRow(n), i)
    THEN [panic |-> TRUE, state |-> s]
    ELSE [panic |-> FALSE,
          state |-> [i \in 1..n |->
                        Fract(FAdd(s[(i % n) + 1], ConstAt(ConstRow(n), i - 1)))]]

\* State<N>::gen
State_gen(s, n) ==
    IF \E i \in 0..(n - 1) : ~TableIndexOk(ConstRow(n), i)
    THEN [panic |-> TRUE, state |-> s]
    ELSE [panic |-> FALSE,
          state |-> [i \in 1..n |-> Fract(FAdd(s[i], ConstAt(ConstRow(n), i - 1)))]]

Returned_before(old, new) == old

\* The coordinates State<N>::gen returns: &self.0 after the loop.
Returned(old, new) == new

TupleOf_reversed(shape, xs) ==
    [k |-> "tuple",
     v |-> [j \in 1..Len(shape) |-> FromUniform(shape[j], xs[Len(shape) + 1 - j])]]

\* The tuple built by Qrng::<(T0, ..)>::gen : ($($t::from_uniform(*$x),)*)
TupleOf(shape, xs) ==
    [k |-> "tuple", v |-> [j \in 1..Len(shape) |-> FromUniform(shape[j], xs[j])]]

StepsPerGen_twice == 1 + 1

\* Number of self.state.gen() calls made by one Qrng::gen.
StepsPerGen == 1

RECURSIVE Advance(_, _, _)
Advance(s, n, steps) ==
    IF steps = 0
    THEN [panic |-> FALSE, state |-> s]
    ELSE LET r == State_gen(s, n)
         IN IF r.panic THEN r ELSE Advance(r.state, n, steps - 1)

(***************************************************************************)
(* The legacy generator of src/quasirandom/src/lib.rs : Qrng(f64), a       *)
(* counter multiplied by the constants SEQ1 .. SEQ16.                      *)
(***************************************************************************)
\* static SEQ1 .. SEQ16 : SEQ[d] is SEQd, each entry c stored as
\* floor(c * ONE).
SEQ == <<
    <<632>>,
    <<772, 583>>,
    <<838, 687, 562>>,
    <<877, 751, 643, 551>>,
    <<902, 795, 700, 617, 544>>,
    <<920, 826, 743, 667, 600, 539>>,
    <<933, 850, 775, 707, 644, 587, 535>>,
    <<943, 869, 801, 738, 680, 627, 578, 532>>,
    <<951, 884, 822, 764, 710, 660, 614, 570, 530>>,
    <<958, 897, 839, 786, 735, 688, 644, 603, 565, 528>>,
    <<964, 907, 854, 804, 757, 713, 671, 632, 595, 560, 527>>,
    <<968, 916, 866, 820, 775, 734, 694, 656, 621, 587, 556, 526>>,
    <<972, 924, 877, 833, 792, 752, 714, 678, 644, 612, 581, 552, 525>>,
    <<976, 930, 887, 845, 806, 768, 732, 698, 665, 634, 605, 576, 549, 524>>,
    <<979, 936, 895, 856, 818, 782, 748, 715, 684, 654, 626, 598, 572, 547, 523>>,
    <<981, 941, 902, 865, 829, 795, 763, 731, 701, 672, 644, 618, 592, 568, 545, 522>>
>>

\* next1 .. next16
LegacyMaxDim == 16

\* Qrng::new(seed: u32) : Qrng(seed as f64).  The counter is an
\* integer-valued float, held as that integer (exact below 2^53).
Legacy_new(seed) == seed

Legacy_next_incrementFirst(c, k) ==
    [result |-> [i \in 1..k |-> Fract(FMulInt(SEQ[k][i], c + 1))], c |-> c + 1]

Legacy_next_noFract(c, k) ==
    [result |-> [i \in 1..k |-> FMulInt(SEQ[k][i], c)], c |-> c + 1]

Legacy_next_skip(c, k) ==
    [result |-> [i \in 1..k |-> Fract(FMulInt(SEQ[k][i], c))], c |-> c + 2]

\* Qrng::nextK : the tuple ((self.0 * SEQK[i]).fract()), then self.0 += 1.0
Legacy_next(c, k) ==
    [result |-> [i \in 1..k |-> Fract(FMulInt(SEQ[k][i], c))], c |-> c + 1]

\* Qrng::next : self.next1()
Legacy_next_alias(c) == Legacy_next(c, 1)

\* Qrng::genK for the field types of shape, K = Len(shape): the data of
\* nextK mapped field by field; gen1 returns the bare value.
Legacy_gen(c, shape) ==
    LET r == Legacy_next(c, Len(shape))
    IN [c |-> r.c,
        data |-> r.result,
        val |-> IF Len(shape) = 1
                THEN FromUniform(shape[1], r.result[1])
                ELSE [k |-> "tuple",
                      v |-> [j \in 1..Len(shape) |->
                                FromUniform(shape[j], r.result[j])]]]

\* Qrng::gen : self.gen1()
Legacy_gen_alias(c, ty) == Legacy_gen(c, <<ty>>)

(***************************************************************************)
(* Inputs.                                                                 *)
(***************************************************************************)
TypeList ==
    << TF64, TBool, TUnit, TOption(TF64), TResult(TBool, TF64),
       TOption(TResult(TUnit, TOption(TBool))) >>

Types == {TypeList[j] : j \in 1..Len(TypeList)}

\* A k-tuple type whose fields cycle through TypeList starting at offset r.
TupleShape(k, r) == [j \in 1..k |-> TypeList[((j - 1 + r) % Len(TypeList)) + 1]]

\* Seeds, valid and invalid: negative, zero, inside [0,1), 1.0, above, NaN.
Seeds == {0 - ONE - 1, 0 - 1, 0, 1, 300, HALF, ONE - 1, ONE, ONE + 1, 2 * ONE + 5, NaN}

PairSeeds == {0 - 1, 0, 300, ONE - 1, ONE}

\* u32 seeds of the legacy generator.
LegacySeeds == {0, 1, 7, 1000, 2000000}

\* The k-tuple type (f64, .., f64).
F64Shape(k) == [j \in 1..k |-> TF64]

Arities == 0..(TableDim + 1)

(***************************************************************************)
(* Operations.                                                             *)
(***************************************************************************)
\* Qrng::<(T0, .., Tk-1)>::new(seed)
NewTuple(h, shape, seed) ==
    /\ handles[h].st = "uninit"
    /\ HasTupleImpl(Len(shape))
    /\ LET res == Qrng_tuple_new(TupleN(Len(shape)), seed)
       IN handles' = [handles EXCEPT ![h] =
            [st |-> IF res.panic THEN "panicked" ELSE "live",
             tuple |-> TRUE, shape |-> shape, n |-> TupleN(Len(shape)),
             seed |-> seed, state |-> res.state, calls |-> 0,
             coords |-> <<>>, out |-> NoValue, outs |-> <<>>]]
    /\ UNCHANGED <<call, legacy>>

\* Qrng::<T>::new(seed) for a non-tuple T
NewScalar(h, ty, seed) ==
    /\ handles[h].st = "uninit"
    /\ LET res == Qrng_new(seed)
       IN handles' = [handles EXCEPT ![h] =
            [st |-> IF res.panic THEN "panicked" ELSE "live",
             tuple |-> FALSE, shape |-> <<ty>>, n |-> ScalarN,
             seed |-> seed, state |-> res.state, calls |-> 0,
             coords |-> <<>>, out |-> NoValue, outs |-> <<>>]]
    /\ UNCHANGED <<call, legacy>>

\* Qrng::gen, of the tuple impl or of the non-tuple impl
Gen(h) ==
    /\ handles[h].st = "live"
    /\ handles[h].calls < MaxCalls
    /\ LET me == handles[h]
           res == Advance(SelfState(h), me.n, StepsPerGen)
           xs == Returned(SelfState(h), res.state)
       IN handles' = [handles EXCEPT ![h] =
            IF res.panic
            THEN [me EXCEPT !.st = "panicked", !.calls = me.calls + 1]
            ELSE LET val == IF me.tuple
                            THEN TupleOf(me.shape, xs)
                            ELSE FromUniform(me.shape[1], xs[1])
                 IN [me EXCEPT !.state = res.state,
                               !.calls = me.calls + 1,
                               !.coords = xs,
                               !.out = val,
                               !.outs = Append(me.outs, val)]]
    /\ UNCHANGED <<call, legacy>>

\* A direct call T::from_uniform(u) with u in [0, 1)
FromUniformCall(ty, u) ==
    /\ call = NoCall
    /\ call' = [ty |-> ty, u |-> u, out |-> FromUniform(ty, u)]
    /\ UNCHANGED <<handles, legacy>>

\* Qrng::new(seed) of the legacy generator
LegacyNew(seed) ==
    /\ legacy.st = "uninit"
    /\ legacy' = [NoLegacy EXCEPT !.st = "live", !.seed = seed,
                                  !.c = Legacy_new(seed)]
    /\ UNCHANGED <<handles, call>>

\* Qrng::nextK of the legacy generator, K = k
LegacyNext(k) ==
    /\ legacy.st = "live"
    /\ legacy.calls < MaxCalls
    /\ LET res == Legacy_next(legacy.c, k)
       IN legacy' = [legacy EXCEPT
                        !.c = res.c,
                        !.calls = legacy.calls + 1,
                        !.arity = k,
                        !.mixed = legacy.mixed
                                    \/ (legacy.calls > 0 /\ legacy.arity # k),
                        !.out = res.result,
                        !.shape = <<>>,
                        !.val = NoValue]
    /\ UNCHANGED <<handles, call>>

\* Qrng::next of the legacy generator
LegacyNextAlias ==
    /\ legacy.st = "live"
    /\ legacy.calls < MaxCalls
    /\ LET res == Legacy_next_alias(legacy.c)
       IN legacy' = [legacy EXCEPT
                        !.c = res.c,
                        !.calls = legacy.calls + 1,
                        !.arity = 1,
                        !.mixed = legacy.mixed
                                    \/ (legacy.calls > 0 /\ legacy.arity # 1),
                        !.out = res.result,
                        !.shape = <<>>,
                        !.val = NoValue]
    /\ UNCHANGED <<handles, call>>

\* Qrng::genK of the legacy generator, K = Len(shape)
LegacyGen(shape) ==
    /\ legacy.st = "live"
    /\ legacy.calls < MaxCalls
    /\ LET res == Legacy_gen(legacy.c, shape)
       IN legacy' = [legacy EXCEPT
                        !.c = res.c,
                        !.calls = legacy.calls + 1,
                        !.arity = Len(shape),
                        !.mixed = legacy.mixed
                                    \/ (legacy.calls > 0 /\ legacy.arity # Len(shape)),
                        !.out = res.data,
                        !.shape = shape,
                        !.val = res.val]
    /\ UNCHANGED <<handles, call>>

\* Qrng::gen of the legacy generator
LegacyGenAlias(ty) ==
    /\ legacy.st = "live"
    /\ legacy.calls < MaxCalls
    /\ LET res == Legacy_gen_alias(legacy.c, ty)
       IN legacy' = [legacy EXCEPT
                        !.c = res.c,
                        !.calls = legacy.calls + 1,
                        !.arity = 1,
                        !.mixed = legacy.mixed
                                    \/ (legacy.calls > 0 /\ legacy.arity # 1),
                        !.out = res.data,
                        !.shape = <<ty>>,
                        !.val = res.val]
    /\ UNCHANGED <<handles, call>>

\* One handle, every arity and every seed.
Next ==
    \/ \E k \in Arities, r \in 0..(Len(TypeList) - 1), seed \in Seeds :
          NewTuple(1, TupleShape(k, r), seed)
    \/ \E ty \in Types, seed \in Seeds : NewScalar(1, ty, seed)
    \/ Gen(1)

Spec == Init /\ [][Next]_vars

\* Two handles side by side.
NextPair ==
    \/ \E h \in Handles, k \in 1..MaxPairArity, r \in 0..(Len(TypeList) - 1),
          seed \in PairSeeds : NewTuple(h, TupleShape(k, r), seed)
    \/ \E h \in Handles, ty \in Types, seed \in PairSeeds : NewScalar(h, ty, seed)
    \/ \E h \in Handles : Gen(h)

SpecPair == Init /\ [][NextPair]_vars

\* Integer widths whose values the model's integers can hold.
IntWidths == {8, 16}

\* Target types of the direct calls: those of TypeList, the integer types
\* and Option / Result over them.
MapTypes ==
    Types
      \cup {TUnsigned(w) : w \in IntWidths}
      \cup {TSigned(w) : w \in IntWidths}
      \cup {TOption(TUnsigned(8)), TOption(TOption(TF64)),
            TResult(TSigned(8), TUnsigned(8)), TResult(TF64, TOption(TBool))}

\* The mappings alone, on every coordinate of [0, 1).
NextMap ==
    /\ call = NoCall
    /\ \E ty \in MapTypes, u \in 0..(ONE - 1) : FromUniformCall(ty, u)

SpecMap == Init /\ [][NextMap]_vars

\* The legacy generator next to a generic handle of f64 fields.
NextLegacy ==
    \/ \E seed \in LegacySeeds : LegacyNew(seed)
    \/ \E k \in 1..LegacyMaxDim : LegacyNext(k)
    \/ \E k \in 1..LegacyMaxDim, seed \in {0, 300} : NewTuple(1, F64Shape(k), seed)
    \/ Gen(1)

SpecLegacy == Init /\ [][NextLegacy]_vars

\* The legacy generator alone, every entry point.
NextLegacyAlone ==
    \/ \E seed \in LegacySeeds : LegacyNew(seed)
    \/ \E k \in 1..LegacyMaxDim : LegacyNext(k)
    \/ LegacyNextAlias
    \/ \E k \in 1..LegacyMaxDim, r \in 0..(Len(TypeList) - 1) :
          LegacyGen(TupleShape(k, r))
    \/ \E ty \in Types : LegacyGenAlias(ty)

SpecLegacyAlone == Init /\ [][NextLegacyAlone]_vars

(***************************************************************************)
(* Properties.                                                             *)
(***************************************************************************)
\* A seed in the half-open interval [0, 1).
SeedInRange(seed) == seed # NaN /\ 0 <= seed /\ seed < ONE

\* A coordinate in the half-open interval [0, 1).
InUnit(x) == x # NaN /\ 0 <= x /\ x < ONE

\* fractional_part with x - floor(x) semantics
FracFloor(x) == x % ONE

\* The phase state new(seed) leaves in an n-dimensional handle.
Seeded(seed, n) == [i \in 1..n |-> FracFloor(seed * (i - 1))]

\* C1: new(seed) panics, and yields no handle, exactly when seed < 0 or
\* seed >= 1; every seed in [0, 1) yields a live handle that records the
\* seed unchanged, for the non-tuple handle and for every tuple arity.
C1_SeedPrecondition ==
    \A h \in Handles :
        handles[h].st # "uninit" =>
            /\ (handles[h].st = "panicked" /\ handles[h].calls = 0)
                   <=> ~SeedInRange(handles[h].seed)
            /\ handles[h].st = "panicked" => handles[h].state = <<>>
            /\ (handles[h].st = "live" /\ handles[h].n >= 2 /\ handles[h].calls = 0)
                   => handles[h].state[2] = handles[h].seed

\* A 32-tuple handle was refused at seed = 1.0 exactly.
C1_Witness ==
    /\ handles[1].st = "panicked"
    /\ handles[1].tuple
    /\ handles[1].n = 32
    /\ handles[1].seed = ONE

\* C2: in every reachable state of a live handle, each of its N phase
\* accumulators and each coordinate last returned lies in [0, 1).
C2_RangeInvariant ==
    \A h \in Handles :
        handles[h].st = "live" =>
            /\ Len(handles[h].state) = handles[h].n
            /\ \A i \in 1..handles[h].n : InUnit(handles[h].state[i])
            /\ \A i \in DOMAIN handles[h].coords : InUnit(handles[h].coords[i])

\* A 32-dimensional handle after two calls whose first accumulator has
\* wrapped around 1.0.
C2_Witness ==
    /\ handles[1].st = "live"
    /\ handles[1].n = 32
    /\ handles[1].calls >= 2
    /\ handles[1].coords[1] < ConstAt(31, 0)

C4_AdvanceStep ==
    [][ \A h \in Handles :
          ( /\ handles[h].st = "live"
            /\ handles'[h].st = "live"
            /\ handles'[h].calls = handles[h].calls + 1 )
          => /\ \A i \in 1..handles[h].n :
                   handles'[h].state[i] =
                       FracFloor(handles[h].state[i] + Constants[handles[h].n][i])
             /\ handles'[h].coords = handles'[h].state ]_vars

\* The first step of a 3-tuple handle seeded with 300/1024: phases 0, 300,
\* 600 advanced by row 3 of the table.
C4_Witness ==
    /\ handles[1].st = "live"
    /\ handles[1].n = 3
    /\ handles[1].seed = 300
    /\ handles[1].calls = 1
    /\ handles[1].coords = <<838, 987, 138>>

\* C5: between new(seed) and the first gen(), phase[i] is
\* fractional_part(seed * i) for i in 0..N, so phase[0] is 0.
C5_Seeding ==
    \A h \in Handles :
        (handles[h].st = "live" /\ handles[h].calls = 0) =>
            /\ handles[h].state = Seeded(handles[h].seed, handles[h].n)
            /\ handles[h].state[1] = 0

\* A fresh 32-dimensional handle whose last phase is a wrapped multiple of
\* the seed.
C5_Witness ==
    /\ handles[1].st = "live"
    /\ handles[1].calls = 0
    /\ handles[1].n = 32
    /\ handles[1].seed = ONE - 1
    /\ handles[1].state[32] = 993

\* C6: after k gen() calls the phase state is the k-fold advance of the
\* seeded state, whatever the field types are.
C6_OneStepPerCall ==
    \A h \in Handles :
        handles[h].st = "live" =>
            handles[h].state =
                Advance(Seeded(handles[h].seed, handles[h].n),
                        handles[h].n, handles[h].calls).state

\* Two calls on a tuple handle with unit, bool, Option and Result fields.
C6_Witness ==
    /\ handles[1].st = "live"
    /\ handles[1].tuple
    /\ handles[1].n >= Len(TypeList)
    /\ handles[1].calls = 2
    /\ handles[1].out.v[3].k = "unit"

\* C7: a k-tuple handle has k accumulators, and the tuple gen() returns has
\* in field j the j-th field type's mapping of coordinate j of the updated
\* phase state.
C7_TupleFields ==
    \A h \in Handles :
        (handles[h].st = "live" /\ handles[h].tuple) =>
            /\ handles[h].n = Len(handles[h].shape)
            /\ Len(handles[h].state) = Len(handles[h].shape)
            /\ handles[h].calls > 0 =>
                /\ handles[h].out.k = "tuple"
                /\ Len(handles[h].out.v) = Len(handles[h].shape)
                /\ \A j \in 1..Len(handles[h].shape) :
                       handles[h].out.v[j] =
                           FromUniform(handles[h].shape[j], handles[h].state[j])

\* A 32-tuple has been generated whose first two fields are an f64 and a bool.
C7_Witness ==
    /\ handles[1].st = "live"
    /\ handles[1].tuple
    /\ Len(handles[1].shape) = 32
    /\ handles[1].calls >= 1
    /\ handles[1].out.v[1].k = "f64"
    /\ handles[1].out.v[2].k = "bool"

\* C8: a handle bound to a non-tuple T has one accumulator and agrees with
\* a handle bound to (T,) seeded alike: same acceptance, same phase state,
\* and its k-th value is the single field of the other's k-th tuple.
C8_ScalarAsOneTuple ==
    \A a \in Handles, b \in Handles :
        ( /\ handles[a].st # "uninit" /\ handles[b].st # "uninit"
          /\ ~handles[a].tuple /\ handles[b].tuple
          /\ handles[a].shape = handles[b].shape
          /\ handles[a].seed = handles[b].seed
          /\ handles[a].calls = handles[b].calls )
        => /\ handles[a].n = 1
           /\ handles[a].st = handles[b].st
           /\ handles[a].state = handles[b].state
           /\ (handles[a].st = "live" /\ handles[a].calls > 0)
                  => handles[b].out.v[1] = handles[a].out

\* An Option<f64> handle and an (Option<f64>,) handle, seeded alike, after
\* two calls each.
C8_Witness ==
    /\ ~handles[1].tuple /\ handles[2].tuple
    /\ handles[1].shape = <<TOption(TF64)>>
    /\ handles[2].shape = <<TOption(TF64)>>
    /\ handles[1].seed = 300 /\ handles[2].seed = 300
    /\ handles[1].calls = 2 /\ handles[2].calls = 2

\* C9: once a handle is constructed, no gen() call fails: a live handle
\* stays live across every step.
C9_GenNeverFails ==
    [][ \A h \in Handles :
          handles[h].st = "live" => handles'[h].st = "live" ]_vars

\* A 32-dimensional handle has served three calls.
C9_Witness ==
    /\ handles[1].st = "live"
    /\ handles[1].n = 32
    /\ handles[1].calls >= 3

\* C10: the bool mapping sends every coordinate < 0.5 to false and every
\* coordinate >= 0.5 to true.
C10_BoolLowIsFalse ==
    call.ty.k = "bool" => (call.out.v <=> call.u >= HALF)

\* C11: for an unsigned integer type of width W and a coordinate u in
\* [0, 1), from_uniform(u) is u * MAX_W truncated toward zero; it is 0 at
\* u = 0 and it never exceeds MAX_W.
C11_UnsignedMapping ==
    call.ty.k = "uint" =>
        /\ call.out.v = (call.u * (2^call.ty.w - 1)) \div ONE
        /\ call.out.v >= 0
        /\ call.out.v <= 2^call.ty.w - 1
        /\ call.u = 0 => call.out.v = 0

\* u8 at the coordinate nearest to 1.0: the product 254.75 maps to 254.
C11_Witness ==
    /\ call.ty = TUnsigned(8)
    /\ call.u = ONE - 1
    /\ call.out.v = 254

\* The coordinates of [0, 1) and the ones a mapping sends to the value v.
Coordinates == 0..(ONE - 1)
Preimage(ty, v) == {u \in Coordinates : FromUniform(ty, u).v = v}

\* C12: the mapping of an unsigned integer type of width W covers
\* 0..=MAX_W: every value, MAX_W included, is the image of some coordinate
\* of [0, 1).  (Stated for every value where the coordinates outnumber the
\* values, and for MAX_W at every width.)
C12_UnsignedCoversRange ==
    call.ty.k = "uint" =>
        /\ Preimage(call.ty, 2^call.ty.w - 1) # {}
        /\ 2^call.ty.w <= ONE =>
              \A v \in 0..(2^call.ty.w - 1) : Preimage(call.ty, v) # {}

\* The real number (MAX_W - MIN_W + 1) * u + MIN_W, in units of 1 / ONE.
SignedReal(w, u) == (2^w) * u - (2^(w - 1)) * ONE

\* C13: for a signed integer type of width W and a coordinate u in [0, 1),
\* from_uniform(u) is u * (MAX_W - MIN_W + 1) + MIN_W truncated toward zero;
\* it lies in MIN_W..=MAX_W, is MIN_W at u = 0, and the value cast already
\* lies inside the range of the type, so the cast never saturates.
C13_SignedMapping ==
    call.ty.k = "int" =>
        LET x == SignedReal(call.ty.w, call.u)
            lo == 0 - 2^(call.ty.w - 1)
            hi == 2^(call.ty.w - 1) - 1
        IN /\ call.out.v = IF x >= 0 THEN x \div ONE ELSE 0 - ((0 - x) \div ONE)
           /\ lo <= call.out.v /\ call.out.v <= hi
           /\ call.u = 0 => call.out.v = lo
           /\ lo * ONE <= x /\ x < (hi + 1) * ONE

\* i8 just below the middle: -0.25 is truncated toward zero, to 0.
C13_Witness ==
    /\ call.ty = TSigned(8)
    /\ call.u = HALF - 1
    /\ call.out.v = 0

\* C14: the mapping of a signed integer type of width W is uniform over
\* MIN_W..=MAX_W: every value has a preimage of the same length, 1 / 2^W of
\* [0, 1), so 0 and MIN_W are as likely as any other value.  (Stated where
\* the coordinates resolve every value: 2^W divides ONE.)
C14_SignedUniform ==
    (call.ty.k = "int" /\ 2^call.ty.w <= ONE) =>
        \A v \in (0 - 2^(call.ty.w - 1))..(2^(call.ty.w - 1) - 1) :
            Cardinality(Preimage(call.ty, v)) = ONE \div 2^call.ty.w

\* C15: Option<T> maps every coordinate u >= 0.5 to None, with no payload
\* whatever T is, and every coordinate u < 0.5 to Some(T::from_uniform(2u)).
C15_OptionMapping ==
    call.ty.k = "Option" =>
        IF call.u >= HALF
        THEN call.out.k = "None" /\ DOMAIN call.out = {"k"}
        ELSE /\ call.out.k = "Some"
             /\ call.out.v = FromUniform(call.ty.t, 2 * call.u)

\* Option<u8> just below 0.5: Some of the u8 mapping of 2u.
C15_Witness ==
    /\ call.ty = TOption(TUnsigned(8))
    /\ call.u = HALF - 1
    /\ call.out.k = "Some"
    /\ call.out.v.v = 254

\* C16: Result<T, E> maps every coordinate u < 0.5 to
\* Ok(T::from_uniform(2u)) and every coordinate u >= 0.5, 0.5 included, to
\* Err(E::from_uniform(2u - 1)); the value carries exactly one payload.
C16_ResultMapping ==
    call.ty.k = "Result" =>
        /\ DOMAIN call.out = {"k", "v"}
        /\ IF call.u < HALF
           THEN /\ call.out.k = "Ok"
                /\ call.out.v = FromUniform(call.ty.t, 2 * call.u)
           ELSE /\ call.out.k = "Err"
                /\ call.out.v = FromUniform(call.ty.e, 2 * call.u - ONE)

\* Result<bool, f64> at 0.5 exactly: Err of the coordinate 0.0.
C16_Witness ==
    /\ call.ty = TResult(TBool, TF64)
    /\ call.u = HALF
    /\ call.out.k = "Err"
    /\ call.out.v.v = 0

\* The k-fold application of x -> fractional_part(x + c) to x.
RECURSIVE FieldOrbit(_, _, _)
FieldOrbit(x, c, k) ==
    IF k = 0 THEN x ELSE FieldOrbit(FracFloor(x + c), c, k - 1)

\* C17: in an N-dimensional handle the phase of field i after k calls, and
\* the coordinate returned for it, is the k-fold application of
\* x -> fractional_part(x + constants_for(N)[i]) to fractional_part(seed * i):
\* a function of seed, N, i and k alone, whatever the other fields' phases
\* and the field types are.
C17_FieldIndependence ==
    \A h \in Handles :
        handles[h].st = "live" =>
            \A i \in 1..handles[h].n :
                LET x == FieldOrbit(FracFloor(handles[h].seed * (i - 1)),
                                    Constants[handles[h].n][i],
                                    handles[h].calls)
                IN /\ handles[h].state[i] = x
                   /\ handles[h].calls > 0 => handles[h].coords[i] = x

\* A pair handle seeded with 300/1024 after two calls: field 0 has moved by
\* twice its constant from 0, field 1 by twice its own from the seed.
C17_Witness ==
    /\ handles[1].st = "live"
    /\ handles[1].n = 2
    /\ handles[1].seed = 300
    /\ handles[1].calls = 2
    /\ handles[1].coords = <<520, 442>>

\* C18: two handles of the same output shape seeded with two distinct valid
\* seeds produce different output streams, for every shape, the
\* one-dimensional ones included: they never stand, after the same number
\* of calls, with the same values returned so far and the same phase state
\* (from which every later value would be the same too).
C18_DistinctSeedsDistinctStreams ==
    \A a \in Handles, b \in Handles :
        ( /\ a # b
          /\ handles[a].st = "live" /\ handles[b].st = "live"
          /\ handles[a].tuple = handles[b].tuple
          /\ handles[a].shape = handles[b].shape
          /\ handles[a].seed # handles[b].seed
          /\ handles[a].calls = handles[b].calls
          /\ handles[a].calls >= 1 )
        => ~( /\ handles[a].outs = handles[b].outs
              /\ handles[a].state = handles[b].state )

\* A legacy generator created with seed 0 whose calls so far were all
\* nextN(), next to a generic N-dimensional handle of f64 fields created
\* with seed 0.0.
LegacyBesideGeneric ==
    /\ legacy.st = "live" /\ legacy.seed = 0
    /\ legacy.calls >= 1 /\ ~legacy.mixed
    /\ handles[1].st = "live" /\ handles[1].tuple /\ handles[1].seed = 0
    /\ handles[1].shape = F64Shape(legacy.arity)

\* C20 (as claimed): for every N in 1..16 and every k >= 1, the k-th
\* nextN() call on the legacy generator created with seed 0 returns the
\* tuple that the k-th gen() call returns on the generic N-dimensional f64
\* handle created with seed 0.0.
C20_LegacySameAsGeneric ==
    (LegacyBesideGeneric /\ handles[1].calls = legacy.calls) =>
        \A i \in 1..legacy.arity : legacy.out[i] = handles[1].out.v[i].v

\* C20 (amended): the k-th nextN() call on the legacy generator created
\* with seed 0 returns fractional_part((k - 1) * SEQN[i]) in every
\* component, all zeros at the first call, whereas the first gen() of the
\* generic handle returns the constants of row N, none of them zero; the
\* first tuples differ in every component.
C20_LegacyLagsGeneric ==
    LegacyBesideGeneric =>
        /\ \A i \in 1..legacy.arity :
              legacy.out[i] = FracFloor((legacy.calls - 1) * SEQ[legacy.arity][i])
        /\ legacy.calls = 1 => \A i \in 1..legacy.arity : legacy.out[i] = 0
        /\ handles[1].calls = 1 =>
              \A i \in 1..legacy.arity :
                  /\ handles[1].out.v[i].v = Constants[legacy.arity][i]
                  /\ handles[1].out.v[i].v # 0
        /\ (legacy.calls = 1 /\ handles[1].calls = 1) =>
              \A i \in 1..legacy.arity : legacy.out[i] # handles[1].out.v[i].v

\* The first next16() and the first gen() of a 16-tuple handle, both from
\* seed 0.
C20_Witness ==
    /\ LegacyBesideGeneric
    /\ legacy.arity = 16
    /\ legacy.calls = 1
    /\ handles[1].calls = 1

\* C21: every coordinate the legacy generator returns from next(), next1()
\* .. next16(), for any seed and after any calls, lies in [0, 1), and a
\* nextN() call returns N of them.
C21_LegacyRange ==
    (legacy.st = "live" /\ legacy.calls > 0) =>
        /\ Len(legacy.out) = legacy.arity
        /\ \A i \in 1..legacy.arity : InUnit(legacy.out[i])

\* The third call, a next16(), on a generator seeded with 2000000.
C21_Witness ==
    /\ legacy.st = "live"
    /\ legacy.seed = 2000000
    /\ legacy.calls = 3
    /\ legacy.arity = 16
    /\ legacy.val = NoValue
    /\ legacy.c > 2000000

\* C23: for every dimension d in 1..32 and every i < d the constant the
\* advance step reads (row d-1, column i) is a real number strictly between
\* 0 and 1; the advance of an N-dimensional state reads only row N-1,
\* columns 0..N-1, so the NaN padding of the table is never added to a
\* phase: every phase of a live handle is a real number, and each call moved
\* phase i by exactly the constant of row N-1, column i.
C23_ConstantsRead ==
    /\ \A d \in 1..TableDim : \A i \in 1..d :
          /\ ~IsNaN(Constants[d][i])
          /\ 0 < Constants[d][i]
          /\ Constants[d][i] < ONE
    /\ \A h \in Handles :
          handles[h].st = "live" =>
             \A i \in 1..handles[h].n :
                /\ ~IsNaN(handles[h].state[i])
                /\ handles[h].state[i] =
                      FracFloor(FracFloor(handles[h].seed * (i - 1))
                                + handles[h].calls * Constants[handles[h].n][i])

\* A 31-dimensional handle, whose table row ends in one padding entry, has
\* been advanced.
C23_Witness ==
    /\ handles[1].st = "live"
    /\ handles[1].n = 31
    /\ handles[1].calls >= 1
    /\ IsNaN(Constants[handles[1].n][handles[1].n + 1])

\* C24: new(seed) sets the legacy counter to seed; every next/nextK/gen/genK
\* call returns fract(c * SEQK[i]) for the counter c before the call (mapped
\* field by field for genK) and then adds exactly 1 to the counter, so after
\* m calls of any arities the counter is seed + m; the first call on a
\* generator seeded with 0 returns all zeros.
C24_LegacyCounter ==
    legacy.st = "live" =>
        /\ legacy.c = legacy.seed + legacy.calls
        /\ legacy.calls > 0 =>
              /\ Len(legacy.out) = legacy.arity
              /\ \A i \in 1..legacy.arity :
                    legacy.out[i] =
                       FracFloor((legacy.seed + legacy.calls - 1)
                                 * SEQ[legacy.arity][i])
        /\ legacy.shape # <<>> =>
              /\ Len(legacy.shape) = legacy.arity
              /\ legacy.val =
                    IF legacy.arity = 1
                    THEN FromUniform(legacy.shape[1], legacy.out[1])
                    ELSE [k |-> "tuple",
                          v |-> [j \in 1..legacy.arity |->
                                    FromUniform(legacy.shape[j], legacy.out[j])]]
        /\ (legacy.seed = 0 /\ legacy.calls = 1) =>
              \A i \in 1..legacy.arity : legacy.out[i] = 0

\* Three calls of differing arities on a generator seeded with 7, the last
\* one a gen3().
C24_Witness ==
    /\ legacy.st = "live"
    /\ legacy.seed = 7
    /\ legacy.calls = 3
    /\ legacy.mixed
    /\ legacy.arity = 3
    /\ legacy.shape # <<>>
    /\ legacy.c = 10

\* C25: for a 1-dimensional handle and for field 0 of any tuple handle the
\* raw coordinate sequence does not depend on the seed: phase 0 is the k-fold
\* advance of 0 after k calls, so two handles of the same dimension agree on
\* it after the same number of calls, and two non-tuple handles of the same
\* type return identical sequences whatever their seeds.
C25_SeedIgnoredInFieldZero ==
    \A h1 \in Handles : \A h2 \in Handles :
        ( /\ handles[h1].st = "live"
          /\ handles[h2].st = "live"
          /\ handles[h1].n = handles[h2].n
          /\ handles[h1].calls = handles[h2].calls ) =>
            /\ handles[h1].state[1] =
                  FracFloor(handles[h1].calls * Constants[handles[h1].n][1])
            /\ handles[h1].state[1] = handles[h2].state[1]
            /\ handles[h1].calls > 0 =>
                  handles[h1].coords[1] = handles[h2].coords[1]
            /\ ( /\ ~handles[h1].tuple
                 /\ ~handles[h2].tuple
                 /\ handles[h1].shape = handles[h2].shape ) =>
                    handles[h1].outs = handles[h2].outs

\* Two non-tuple f64 handles seeded 0 and 300/1024 have each served two calls.
C25_Witness ==
    /\ handles[1].st = "live"
    /\ handles[2].st = "live"
    /\ ~handles[1].tuple
    /\ ~handles[2].tuple
    /\ handles[1].shape = <<TF64>>
    /\ handles[2].shape = <<TF64>>
    /\ handles[1].seed = 0
    /\ handles[2].seed = 300
    /\ handles[1].calls = 2
    /\ handles[2].calls = 2

\* The coordinates handed to from_uniform while T::from_uniform(u) runs: u
\* itself and, through Option and Result, those of the inner calls.
RECURSIVE Invocations(_, _)
Invocations(ty, u) ==
    {u} \cup
    CASE ty.k = "Option" ->
            IF FirstHalf(u) THEN Invocations(ty.t, InnerLow(u)) ELSE {}
      [] ty.k = "Result" ->
            IF FirstHalf(u)
            THEN Invocations(ty.t, InnerLow(u))
            ELSE Invocations(ty.e, InnerHigh(u))
      [] OTHER -> {}

\* C26: given a coordinate in [0, 1), Option and Result hand their inner
\* mapping (2u on Some / Ok, 2u - 1 on Err) a coordinate in [0, 1); so at
\* every nesting depth each from_uniform invoked receives a coordinate in
\* [0, 1).
C26_InnerCoordinateRange ==
    call # NoCall =>
        \A x \in Invocations(call.ty, call.u) : InUnit(x)

\* Option<Result<(), Option<bool>>> at 300/1024 : Some, then Err, then Some,
\* four from_uniform invocations deep.
C26_Witness ==
    /\ call # NoCall
    /\ call.ty = TOption(TResult(TUnit, TOption(TBool)))
    /\ call.u = 300
    /\ Cardinality(Invocations(call.ty, call.u)) = 4

\* C27: the integer mappings are monotone: u1 <= u2 implies
\* from_uniform(u1) <= from_uniform(u2), for every unsigned and signed width.
C27_IntegerMonotone ==
    (call # NoCall /\ call.ty.k \in {"uint", "int"}) =>
        \A u2 \in Coordinates :
            call.u <= u2 => call.out.v <= FromUniform(call.ty, u2).v

\* i8 at 300/1024, in the negative part of the range: 256 * 300/1024 - 128.
C27_Witness ==
    /\ call # NoCall
    /\ call.ty = TSigned(8)
    /\ call.u = 300
    /\ call.out.v = 0 - 53

====
